---- MODULE Spec2Model ----
(***************************************************************************)
(* Model of api/index.py: the /process-complete-report/ request handler    *)
(* and the three report components it calls (Region Summary, PERCENTAGE,   *)
(* and the four KPI watch-list sheets).                                    *)
(*                                                                         *)
(* Representation.                                                         *)
(*  - Text is a sequence of one-character strings, so that strip, upper,   *)
(*    split and the lexicographic order of sorted() are computed.          *)
(*  - A cell is a record [k, v, s]: k = "num" with v the value in units of *)
(*    1/Unit (fixed point, hundredths), k = "str" with s the text,         *)
(*    k = "nan" (empty cell / float NaN), k = "inf" / "ninf" (float        *)
(*    infinities produced by a division by zero).                          *)
(*  - A DataFrame is [cols, dups, rows]: the header names, those of them   *)
(*    that occur twice once stripped, and the rows (functions from header  *)
(*    name to cell).                                                       *)
(*  - A worksheet is [header, body]: the column labels and the rows below  *)
(*    them, each a function from label to cell.                            *)
(***************************************************************************)
EXTENDS Integers, Sequences, FiniteSets, TLC

VARIABLES pc, file, df, wb, output_io, response, calls, errors

vars == <<pc, file, df, wb, output_io, response, calls, errors>>

---------------------------------------------------------------------------
(* Bounds of the model.                                                    *)

\* Largest number of data rows of an uploaded DATA sheet, per specification.
MaxRows == 2
MaxRowsRegion == 2
MaxRowsPerc == 2
MaxRowsBand == 4
MaxRowsKpi == 2

\* Fixed-point denominator of numeric cells: round(x, 2) keeps hundredths.
Unit == 100

---------------------------------------------------------------------------
(* Characters and text.                                                    *)

Lowers == <<"a","b","c","d","e","f","g","h","i","j","k","l","m",
            "n","o","p","q","r","s","t","u","v","w","x","y","z">>
Uppers == <<"A","B","C","D","E","F","G","H","I","J","K","L","M",
            "N","O","P","Q","R","S","T","U","V","W","X","Y","Z">>

\* Characters in code-point order, as Python compares them.
CodeOrder == <<" ", ".", "/", "1", "_">> \o Uppers \o Lowers

Ord(c) == CHOOSE i \in DOMAIN CodeOrder : CodeOrder[i] = c

IsSpace(c) == c = " "

UpperChar(c) ==
  IF \E i \in DOMAIN Lowers : Lowers[i] = c
  THEN Uppers[CHOOSE i \in DOMAIN Lowers : Lowers[i] = c]
  ELSE c

LowerChar(c) ==
  IF \E i \in DOMAIN Uppers : Uppers[i] = c
  THEN Lowers[CHOOSE i \in DOMAIN Uppers : Uppers[i] = c]
  ELSE c

\* str.upper() / str.lower()
Upper(s) == [i \in DOMAIN s |-> UpperChar(s[i])]
Lower(s) == [i \in DOMAIN s |-> LowerChar(s[i])]

RECURSIVE LStrip(_)
LStrip(s) == IF s # <<>> /\ IsSpace(Head(s)) THEN LStrip(Tail(s)) ELSE s

RECURSIVE RStrip(_)
RStrip(s) ==
  IF s # <<>> /\ IsSpace(s[Len(s)]) THEN RStrip(SubSeq(s, 1, Len(s) - 1)) ELSE s

\* str.strip()
Strip(s) == RStrip(LStrip(s))

RECURSIVE TakeWord(_)
TakeWord(s) ==
  IF s = <<>> \/ IsSpace(Head(s)) THEN <<>> ELSE <<Head(s)>> \o TakeWord(Tail(s))

\* s.split()[0] of a text that holds a non-space character
FirstToken(s) == TakeWord(LStrip(s))

\* str.endswith(suffix)
EndsWith(s, suffix) ==
  /\ Len(s) >= Len(suffix)
  /\ SubSeq(s, Len(s) - Len(suffix) + 1, Len(s)) = suffix

\* a < b for Python strings: by code point, a proper prefix first
RECURSIVE LexLess(_, _)
LexLess(a, b) ==
  IF b = <<>> THEN FALSE
  ELSE IF a = <<>> THEN TRUE
  ELSE IF Head(a) = Head(b) THEN LexLess(Tail(a), Tail(b))
  ELSE Ord(Head(a)) < Ord(Head(b))

\* sorted(S) of a set of texts
RECURSIVE SortedTexts(_)
SortedTexts(S) ==
  IF S = {} THEN <<>>
  ELSE LET m == CHOOSE x \in S : \A y \in S \ {x} : LexLess(x, y)
       IN  <<m>> \o SortedTexts(S \ {m})

\* sep.join(parts)
RECURSIVE Join(_, _)
Join(sep, parts) ==
  IF parts = <<>> THEN <<>>
  ELSE IF Len(parts) = 1 THEN parts[1]
  ELSE parts[1] \o sep \o Join(sep, Tail(parts))

---------------------------------------------------------------------------
(* Cells.                                                                  *)

Num(n)  == [k |-> "num", v |-> n, s |-> <<>>]
Str(t)  == [k |-> "str", v |-> 0, s |-> t]
NaN     == [k |-> "nan", v |-> 0, s |-> <<>>]
PosInf  == [k |-> "inf", v |-> 0, s |-> <<>>]
NegInf  == [k |-> "ninf", v |-> 0, s |-> <<>>]

\* an integer count as a cell
Count(n) == Num(n * Unit)

\* Series.fillna('').astype(str) on a text column
FillnaEmpty(c) == IF c.k = "nan" THEN Str(<<>>) ELSE c

\* float(text): the texts of the model that parse are made of the digit 1
ParseFloat(t) ==
  LET u == Strip(t)
  IN  IF u # <<>> /\ \A i \in DOMAIN u : u[i] = "1"
      THEN IF Len(u) = 1 THEN Num(Unit) ELSE Num(11 * Unit)
      ELSE NaN

\* pd.to_numeric(col, errors='coerce').fillna(0), cell by cell
ToNumericFillna0(c) ==
  LET n == IF c.k = "str" THEN ParseFloat(c.s) ELSE c
  IN  IF n.k = "nan" THEN Num(0) ELSE n

\* int(x) of a finite float: truncation toward zero
TruncInt(v) == IF v >= 0 THEN (v \div Unit) * Unit ELSE -(((-v) \div Unit) * Unit)

\* Series.astype(int), cell by cell (the columns cast hold finite numbers)
AsTypeInt(c) == Num(TruncInt(c.v))

\* round half to even of the rational p / q, q > 0
RoundDiv(p, q) ==
  LET f == p \div q
      r == p - f * q
  IN  IF 2 * r < q THEN f
      ELSE IF 2 * r > q THEN f + 1
      ELSE IF f % 2 = 0 THEN f ELSE f + 1

---------------------------------------------------------------------------
(* DataFrames.                                                             *)

\* Header names of the DATA sheets of the model.
AllCols ==
  {"MECHNAT_ID", "REGION_NAME", "STATE_NAME", "CO ORDINATOR NAME",
   "TOTAL LOGGING DAYS", "TOTAL_FIN_SUCCESS", "TOTAL_FIN_SUCCESS_AMT",
   "TOTAL EKYC SUCCESS", "TOTAL APY SUCCESS", "TOTAL PMSBY SUCCESS",
   "TOTAL PMJJBY SUCCESS", "TOTAL LOAN RECOVERY", "TOTAL AMOUNT",
   "LOAN LEAD GENERATION COUNT"}

\* Headers written with a blank before or after the name in the upload.
PaddedRegionCol == " REGION_NAME"
PaddedStateCol == "STATE_NAME "

\* str.strip() of a header name
StripName(c) ==
  CASE c = PaddedRegionCol -> "REGION_NAME"
    [] c = PaddedStateCol -> "STATE_NAME"
    [] OTHER -> c

\* the frame with its header names mapped through f (df.columns = ...)
RenameCols(d, f) ==
  [cols |-> {f[c] : c \in d.cols},
   dups |-> {f[c] : c \in d.dups}
            \cup {n \in {f[c] : c \in d.cols} :
                    Cardinality({c \in d.cols : f[c] = n}) > 1},
   rows |-> [i \in DOMAIN d.rows |->
              [n \in {f[c] : c \in d.cols} |->
                 d.rows[i][CHOOSE c \in d.cols : f[c] = n]]]]

\* df.columns = df.columns.str.strip()
StripColumns(d) == RenameCols(d, [c \in d.cols |-> StripName(c)])

\* df[col] = g, a value for every row (adds the column when absent)
SetCol(d, col, g) ==
  [cols |-> d.cols \cup {col},
   dups |-> d.dups,
   rows |-> [i \in DOMAIN d.rows |->
              [n \in d.cols \cup {col} |->
                 IF n = col THEN g[i] ELSE d.rows[i][n]]]]

\* the values of a column are text for the .str accessor: an object column,
\* which a column read from a sheet is when one of its cells holds text
HasStrAccessor(d, col) == \E i \in DOMAIN d.rows : d.rows[i][col].k = "str"

\* Series.str.strip().str.upper(): a cell that is not text becomes NaN
StrStripUpper(c) == IF c.k = "str" THEN Str(Upper(Strip(c.s))) ELSE NaN

\* Series.fillna('').astype(str).str.strip().str.upper()
NormState(c) == Str(Upper(Strip(FillnaEmpty(c).s)))

\* the STATE_NAME step shared by the three components:
\* normalised when the column is there, '' for every row when it is not
WithStateName(d) ==
  IF "STATE_NAME" \in d.cols
  THEN SetCol(d, "STATE_NAME", [i \in DOMAIN d.rows |-> NormState(d.rows[i]["STATE_NAME"])])
  ELSE SetCol(d, "STATE_NAME", [i \in DOMAIN d.rows |-> Str(<<>>)])

RECURSIVE SumCol(_, _)
\* Series.sum() of a numeric column over a sequence of rows
SumCol(rows, col) ==
  IF rows = <<>> THEN 0 ELSE rows[1][col].v + SumCol(Tail(rows), col)

\* (a, b) < (c, d) for tuples of two texts
PairLess(p, q) ==
  \/ LexLess(p[1], q[1])
  \/ p[1] = q[1] /\ LexLess(p[2], q[2])

RECURSIVE SortedPairs(_)
\* the group keys in the order groupby(sort=True) yields them
SortedPairs(S) ==
  IF S = {} THEN <<>>
  ELSE LET m == CHOOSE x \in S : \A y \in S \ {x} : PairLess(x, y)
       IN  <<m>> \o SortedPairs(S \ {m})

---------------------------------------------------------------------------
(* create_region_summary_sheet                                             *)

RegionNumericCols ==
  <<"TOTAL_FIN_SUCCESS", "TOTAL_FIN_SUCCESS_AMT", "TOTAL EKYC SUCCESS",
    "TOTAL APY SUCCESS", "TOTAL PMSBY SUCCESS", "TOTAL PMJJBY SUCCESS",
    "TOTAL LOAN RECOVERY", "TOTAL AMOUNT", "LOAN LEAD GENERATION COUNT">>

\* named aggregation: output column -> summed input column
RegionSumOf ==
  [TOTAL_TXN_COUNT      |-> "TOTAL_FIN_SUCCESS",
   TOTAL_TXN_AMOUNT     |-> "TOTAL_FIN_SUCCESS_AMT",
   TOTAL_EKYC_SUCCESS   |-> "TOTAL EKYC SUCCESS",
   TOTAL_APY_SUCCESS    |-> "TOTAL APY SUCCESS",
   TOTAL_PMSBY_SUCCESS  |-> "TOTAL PMSBY SUCCESS",
   TOTAL_PMJJBY_SUCCESS |-> "TOTAL PMJJBY SUCCESS",
   TOTAL_LOAN_RECOVERY  |-> "TOTAL LOAN RECOVERY",
   TOTAL_RECOVERY_AMT   |-> "TOTAL AMOUNT",
   TOTAL_LOAN_LEADS     |-> "LOAN LEAD GENERATION COUNT"]

RegionSumCols == DOMAIN RegionSumOf

RegionIntColumns ==
  {"TOTAL_BC", "TOTAL_TXN_COUNT", "TOTAL_EKYC_SUCCESS", "TOTAL_APY_SUCCESS",
   "TOTAL_PMSBY_SUCCESS", "TOTAL_PMJJBY_SUCCESS", "TOTAL_LOAN_RECOVERY",
   "TOTAL_LOAN_LEADS"}

\* display label -> computed column, in the order of desired_order
RegionDesiredOrder ==
  <<"REGION", "STATE", "COORDINATOR", "TOTAL\nBC", "TOTAL\nTXN\nCOUNT",
    "TOTAL\nTXN\nAMOUNT", "TOTAL\nEKYC", "TOTAL\nAPY", "TOTAL\nPMSBY",
    "TOTAL\nPMJJBY", "TOTAL\nLOAN\nRECOVERY", "TOTAL\nRECOVERY\nAMT",
    "TOTAL\nLOAN\nLEADS">>

RegionColumnOf ==
  <<"REGION_NAME", "STATE_NAME", "COORDINATOR_NAME", "TOTAL_BC",
    "TOTAL_TXN_COUNT", "TOTAL_TXN_AMOUNT", "TOTAL_EKYC_SUCCESS",
    "TOTAL_APY_SUCCESS", "TOTAL_PMSBY_SUCCESS", "TOTAL_PMJJBY_SUCCESS",
    "TOTAL_LOAN_RECOVERY", "TOTAL_RECOVERY_AMT", "TOTAL_LOAN_LEADS">>

GrandTotalLabel == <<"G","R","A","N","D"," ","T","O","T","A","L">>

RECURSIVE FirstSeen(_, _)
\* the distinct first names of x in the order they are met
FirstSeen(x, seen) ==
  IF x = <<>> THEN <<>>
  ELSE LET t == Upper(FirstToken(Strip(Head(x))))
       IN  IF Strip(Head(x)) = <<>> \/ t \in seen THEN FirstSeen(Tail(x), seen)
           ELSE <<t>> \o FirstSeen(Tail(x), seen \cup {t})

\* the rollup without sorted(): the names joined in the order they are met
CoordinatorRollupUnsorted(x) == Join(<<"/">>, FirstSeen(x, {}))

\* '/'.join(sorted({i.strip().split()[0].upper() for i in x if i.strip()}))
CoordinatorRollup(x) ==
  Join(<<"/">>,
       SortedTexts({Upper(FirstToken(Strip(x[i]))) :
                      i \in {j \in DOMAIN x : Strip(x[j]) # <<>>}}))

\* the statements before the groupby raise (KeyError, AttributeError, TypeError)
RegionPrepareRaises(d) ==
  \/ "REGION_NAME" \notin d.cols
  \/ "REGION_NAME" \in d.dups
  \/ ~HasStrAccessor(d, "REGION_NAME")
  \/ "CO ORDINATOR NAME" \notin d.cols
  \/ "CO ORDINATOR NAME" \in d.dups
  \/ "STATE_NAME" \in d.dups
  \/ \E i \in DOMAIN RegionNumericCols : RegionNumericCols[i] \in d.dups

\* the named aggregation raises KeyError for a column that does not exist
RegionAggRaises(d) ==
  \E i \in DOMAIN RegionNumericCols : RegionNumericCols[i] \notin d.cols

\* df_region after the data processing statements
RegionFrame(d) ==
  LET d1 == SetCol(d, "REGION_NAME",
                   [i \in DOMAIN d.rows |-> StrStripUpper(d.rows[i]["REGION_NAME"])])
      d2 == SetCol(d1, "CO ORDINATOR NAME",
                   [i \in DOMAIN d1.rows |->
                      Str(Strip(FillnaEmpty(d1.rows[i]["CO ORDINATOR NAME"]).s))])
      d3 == WithStateName(d2)
  IN  [d3 EXCEPT !.rows =
         [i \in DOMAIN d3.rows |->
            [n \in d3.cols |->
               IF \E j \in DOMAIN RegionNumericCols : RegionNumericCols[j] = n
               THEN ToNumericFillna0(d3.rows[i][n])
               ELSE d3.rows[i][n]]]]

\* groupby drops the rows whose key holds NaN
RegionKeyed(r) == r["REGION_NAME"].k = "str"
RegionKey(r) == <<r["REGION_NAME"].s, r["STATE_NAME"].s>>

RegionGroupRows(rows, key) ==
  SelectSeq(rows, LAMBDA r : RegionKeyed(r) /\ RegionKey(r) = key)

\* one row of the aggregation
RegionGroup(rows, key) ==
  LET g == RegionGroupRows(rows, key)
  IN  [n \in {"REGION_NAME", "STATE_NAME", "COORDINATOR_NAME", "TOTAL_BC"}
               \cup RegionSumCols |->
         CASE n = "REGION_NAME" -> Str(key[1])
           [] n = "STATE_NAME" -> Str(key[2])
           [] n = "COORDINATOR_NAME" ->
                Str(CoordinatorRollup([i \in DOMAIN g |-> g[i]["CO ORDINATOR NAME"].s]))
           [] n = "TOTAL_BC" -> Count(Len(g))
           [] OTHER -> Num(SumCol(g, RegionSumOf[n]))]

RECURSIVE InsertDesc(_, _, _)
\* insertion of r into a sequence sorted descending by col, after its equals
InsertDesc(sorted, r, col) ==
  IF sorted = <<>> THEN <<r>>
  ELSE IF sorted[1][col].v >= r[col].v
       THEN <<sorted[1]>> \o InsertDesc(Tail(sorted), r, col)
       ELSE <<r>> \o sorted

RECURSIVE SortValuesDesc(_, _)
\* sort_values(by=col, ascending=False); equal keys keep their order, as the
\* insertion sort numpy runs on arrays this short leaves them
SortValuesDesc(rows, col) ==
  IF rows = <<>> THEN <<>>
  ELSE InsertDesc(SortValuesDesc(SubSeq(rows, 1, Len(rows) - 1), col),
                  rows[Len(rows)], col)

\* grouped, sorted by TOTAL_TXN_COUNT descending
RegionGrouped(d) ==
  LET rows == RegionFrame(d).rows
      keys == SortedPairs({RegionKey(rows[i]) :
                             i \in {j \in DOMAIN rows : RegionKeyed(rows[j])}})
  IN  SortValuesDesc([i \in DOMAIN keys |-> RegionGroup(rows, keys[i])],
                     "TOTAL_TXN_COUNT")

\* total_row
RegionTotalRow(grouped) ==
  [n \in {"REGION_NAME", "STATE_NAME", "COORDINATOR_NAME", "TOTAL_BC"}
           \cup RegionSumCols |->
     CASE n = "REGION_NAME" -> Str(GrandTotalLabel)
       [] n = "STATE_NAME" -> Str(<<>>)
       [] n = "COORDINATOR_NAME" -> Str(<<>>)
       [] OTHER -> Num(SumCol(grouped, n))]

\* for col in int_columns: grouped[col] = grouped[col].astype(int)
RegionCastInt(rows) ==
  [i \in DOMAIN rows |->
     [n \in DOMAIN rows[i] |->
        IF n \in RegionIntColumns THEN AsTypeInt(rows[i][n]) ELSE rows[i][n]]]

\* rename(columns=column_rename) and the reorder to desired_order
RegionDisplay(rows) ==
  [i \in DOMAIN rows |->
     [l \in {RegionDesiredOrder[j] : j \in DOMAIN RegionDesiredOrder} |->
        rows[i][RegionColumnOf[CHOOSE j \in DOMAIN RegionDesiredOrder :
                                 RegionDesiredOrder[j] = l]]]]

\* the rows written under the header of the 'Region Summary' sheet
RegionSheetRows(d) ==
  LET grouped == RegionGrouped(d)
  IN  RegionDisplay(RegionCastInt(grouped \o <<RegionTotalRow(grouped)>>))

EmptySheet == [header |-> <<>>, body |-> <<>>]

\* the outcome of the body of the try block: the sheet exists from its first
\* statement on, and is filled only when nothing raised
RegionSummary(d0) ==
  LET d == StripColumns(d0)
  IN  IF RegionPrepareRaises(d) \/ RegionAggRaises(d)
      THEN [ok |-> FALSE, sheet |-> EmptySheet]
      ELSE [ok |-> TRUE,
            sheet |-> [header |-> RegionDesiredOrder, body |-> RegionSheetRows(d)]]

---------------------------------------------------------------------------
(* create_percentage_sheet                                                 *)

\* Band limits of TOTAL_FIN_SUCCESS and the factor of a percentage.
Below50Lo == 1
Below50Hi == 50
Below100Lo == 51
Below100Hi == 100
Hundred == 100

\* header.upper().strip().replace(" ", "_")
PercName(c) ==
  CASE c = PaddedRegionCol -> "REGION_NAME"
    [] c = PaddedStateCol -> "STATE_NAME"
    [] c = "CO ORDINATOR NAME" -> "CO_ORDINATOR_NAME"
    [] c = "TOTAL LOGGING DAYS" -> "TOTAL_LOGGING_DAYS"
    [] c = "TOTAL EKYC SUCCESS" -> "TOTAL_EKYC_SUCCESS"
    [] c = "TOTAL APY SUCCESS" -> "TOTAL_APY_SUCCESS"
    [] c = "TOTAL PMSBY SUCCESS" -> "TOTAL_PMSBY_SUCCESS"
    [] c = "TOTAL PMJJBY SUCCESS" -> "TOTAL_PMJJBY_SUCCESS"
    [] c = "TOTAL LOAN RECOVERY" -> "TOTAL_LOAN_RECOVERY"
    [] c = "TOTAL AMOUNT" -> "TOTAL_AMOUNT"
    [] c = "LOAN LEAD GENERATION COUNT" -> "LOAN_LEAD_GENERATION_COUNT"
    [] OTHER -> c

PercKpiColumns == <<"TOTAL_APY_SUCCESS", "TOTAL_PMSBY_SUCCESS", "TOTAL_PMJJBY_SUCCESS">>

\* final_cols, with the computed column each label is renamed from
PercFinalCols ==
  <<"CO_ORDINATOR", "STATE", "TOTAL_BC", "ACTIVE_BC", "INACTIVE_BC", "%INACTIVE",
    "%AVG_FIN_SUCCESS", "BELOW_50_CNT", "BELOW_50_%", "BELOW_100_CNT",
    "BELOW_100_%", "APY_ACTIVE_%", "PMSBY_ACTIVE_%", "PMJJBY_ACTIVE_%">>

PercColumnOf ==
  <<"CO_ORDINATOR_NAME", "STATE_NAME", "TOTAL_BC", "TOTAL_ACTIVE_BC",
    "TOTAL_INACTIVE_BC", "%INACTIVE", "%AVG_TOTAL_FIN_SUCCESS", "BELOW_50_COUNT",
    "BELOW_50_%", "BELOW_100_COUNT", "BELOW_100_%", "TOTAL_APY_SUCCESS_active_%",
    "TOTAL_PMSBY_SUCCESS_active_%", "TOTAL_PMJJBY_SUCCESS_active_%">>

\* f"{kpi_col}_active_%" and f"{kpi_col}_not_active_%"
ActivePctCol(kpi) ==
  CASE kpi = "TOTAL_APY_SUCCESS" -> "TOTAL_APY_SUCCESS_active_%"
    [] kpi = "TOTAL_PMSBY_SUCCESS" -> "TOTAL_PMSBY_SUCCESS_active_%"
    [] kpi = "TOTAL_PMJJBY_SUCCESS" -> "TOTAL_PMJJBY_SUCCESS_active_%"
NotActivePctCol(kpi) ==
  CASE kpi = "TOTAL_APY_SUCCESS" -> "TOTAL_APY_SUCCESS_not_active_%"
    [] kpi = "TOTAL_PMSBY_SUCCESS" -> "TOTAL_PMSBY_SUCCESS_not_active_%"
    [] kpi = "TOTAL_PMJJBY_SUCCESS" -> "TOTAL_PMJJBY_SUCCESS_not_active_%"

\* (a / b * 100).round(2) on integer Series: the float division by zero
\* yields NaN or an infinity, it does not raise
SeriesPct(a, b) ==
  IF b = 0
  THEN (IF a = 0 THEN NaN ELSE IF a > 0 THEN PosInf ELSE NegInf)
  ELSE Num(RoundDiv(a * Hundred * Unit * (IF b < 0 THEN -1 ELSE 1),
                    IF b < 0 THEN -b ELSE b))

\* round(a / b * 100, 2) if b > 0 else 0
GuardedPct(a, b) == IF b > 0 THEN Num(RoundDiv(a * Hundred * Unit, b)) ELSE Num(0)

\* Series.fillna(0), cell by cell
Fillna0(c) == IF c.k = "nan" THEN Num(0) ELSE c

\* x != 0 on TOTAL_LOGGING_DAYS: true of NaN and of text
PercActive(r) == r["TOTAL_LOGGING_DAYS"] # Num(0)

\* x > 0, x >= lo, x <= hi on a numeric cell: false of NaN
CellGt0(c) == c.k = "num" /\ c.v > 0
CellBetween(c, lo, hi) == c.k = "num" /\ c.v >= lo * Unit /\ c.v <= hi * Unit

\* 'count' of a column: the cells that are not null
CountNotNull(rows, col) == Cardinality({i \in DOMAIN rows : rows[i][col].k # "nan"})

\* Series.mean().round(2): NaN cells are skipped, NaN when none is left
MeanRound2(rows, col) ==
  LET vals == SelectSeq(rows, LAMBDA r : r[col].k = "num")
  IN  IF vals = <<>> THEN NaN ELSE Num(RoundDiv(SumCol(vals, col), Len(vals)))

\* a comparison or a mean meets text in a column it needs numeric
PercTextRaises(d) ==
  \/ \E i \in DOMAIN d.rows : d.rows[i]["TOTAL_FIN_SUCCESS"].k = "str"
  \/ \E i \in DOMAIN d.rows : \E j \in DOMAIN PercKpiColumns :
        /\ PercKpiColumns[j] \in d.cols
        /\ d.rows[i][PercKpiColumns[j]].k = "str"

\* a statement of the try block raises
PercRaises(d) ==
  \/ "STATE_NAME" \in d.dups
  \/ \E c \in {"CO_ORDINATOR_NAME", "MECHNAT_ID", "TOTAL_LOGGING_DAYS",
               "TOTAL_FIN_SUCCESS"} : c \notin d.cols \/ c \in d.dups
  \/ PercTextRaises(d)

\* groupby(["CO_ORDINATOR_NAME", "STATE_NAME"]) drops the rows with a NaN key
PercKeyed(r) == r["CO_ORDINATOR_NAME"].k # "nan"
PercKey(r) == <<r["CO_ORDINATOR_NAME"].s, r["STATE_NAME"].s>>

PercGroupRows(rows, key) ==
  SelectSeq(rows, LAMBDA r : PercKeyed(r) /\ PercKey(r) = key)

\* TOTAL_ACTIVE_BC of a group: (x != 0).sum()
TotalActiveBc(g) == Len(SelectSeq(g, PercActive))

\* the inactive agents counted on their own: the rows with logging days 0
TotalInactiveBcCounted(g) == Len(SelectSeq(g, LAMBDA r : ~PercActive(r)))

\* TOTAL_INACTIVE_BC of a group: TOTAL_BC - TOTAL_ACTIVE_BC
TotalInactiveBc(g) == CountNotNull(g, "MECHNAT_ID") - TotalActiveBc(g)

\* the band count taken over all agents of the group, active or not
BandCountOfAll(g, lo, hi) ==
  CountNotNull(SelectSeq(g, LAMBDA r : CellBetween(r["TOTAL_FIN_SUCCESS"], lo, hi)),
               "MECHNAT_ID")

\* active agents of the group in the band, counted by MECHNAT_ID
BandCount(g, lo, hi) ==
  CountNotNull(SelectSeq(g, LAMBDA r : PercActive(r)
                                /\ CellBetween(r["TOTAL_FIN_SUCCESS"], lo, hi)),
               "MECHNAT_ID")

\* result["BELOW_50_%"], result["BELOW_100_%"]: no fillna follows the division
BandPct(g, lo, hi) == SeriesPct(BandCount(g, lo, hi), TotalActiveBc(g))

\* calculate_kpi_percentage, the active half, mapped back with fillna(0):
\* a group without active rows is absent from active_kpi_count
KpiActivePct(g, kpi) ==
  LET act == SelectSeq(g, PercActive)
  IN  IF act = <<>> THEN Num(0)
      ELSE Fillna0(SeriesPct(Len(SelectSeq(act, LAMBDA r : CellGt0(r[kpi]))),
                             TotalActiveBc(g)))

\* calculate_kpi_percentage, the inactive half
KpiInactivePct(g, kpi) ==
  LET ina == SelectSeq(g, LAMBDA r : ~PercActive(r))
  IN  IF ina = <<>> THEN Num(0)
      ELSE Fillna0(SeriesPct(Len(SelectSeq(ina, LAMBDA r : CellGt0(r[kpi]))),
                             TotalInactiveBc(g)))

\* the columns of result for the frame d
PercResultCols(d) ==
  {"CO_ORDINATOR_NAME", "STATE_NAME", "TOTAL_BC", "TOTAL_ACTIVE_BC",
   "TOTAL_INACTIVE_BC", "%INACTIVE", "%AVG_TOTAL_FIN_SUCCESS", "BELOW_50_COUNT",
   "BELOW_50_%", "BELOW_100_COUNT", "BELOW_100_%"}
  \cup {ActivePctCol(PercKpiColumns[j]) :
          j \in {i \in DOMAIN PercKpiColumns : PercKpiColumns[i] \in d.cols}}
  \cup {NotActivePctCol(PercKpiColumns[j]) :
          j \in {i \in DOMAIN PercKpiColumns : PercKpiColumns[i] \in d.cols}}

\* one row of result
PercGroup(d, key) ==
  LET g == PercGroupRows(d.rows, key)
  IN  [n \in PercResultCols(d) |->
         CASE n = "CO_ORDINATOR_NAME" -> Str(key[1])
           [] n = "STATE_NAME" -> Str(key[2])
           [] n = "TOTAL_BC" -> Count(CountNotNull(g, "MECHNAT_ID"))
           [] n = "TOTAL_ACTIVE_BC" -> Count(TotalActiveBc(g))
           [] n = "TOTAL_INACTIVE_BC" -> Count(TotalInactiveBc(g))
           [] n = "%INACTIVE" ->
                SeriesPct(TotalInactiveBc(g), CountNotNull(g, "MECHNAT_ID"))
           [] n = "%AVG_TOTAL_FIN_SUCCESS" -> MeanRound2(g, "TOTAL_FIN_SUCCESS")
           [] n = "BELOW_50_COUNT" -> Count(BandCount(g, Below50Lo, Below50Hi))
           [] n = "BELOW_50_%" -> BandPct(g, Below50Lo, Below50Hi)
           [] n = "BELOW_100_COUNT" -> Count(BandCount(g, Below100Lo, Below100Hi))
           [] n = "BELOW_100_%" -> BandPct(g, Below100Lo, Below100Hi)
           [] OTHER ->
                LET j == CHOOSE i \in DOMAIN PercKpiColumns :
                           n \in {ActivePctCol(PercKpiColumns[i]),
                                  NotActivePctCol(PercKpiColumns[i])}
                IN  IF n = ActivePctCol(PercKpiColumns[j])
                    THEN KpiActivePct(g, PercKpiColumns[j])
                    ELSE KpiInactivePct(g, PercKpiColumns[j])]

\* result before the grand total: one row per group, in key order
PercResult(d) ==
  LET keys == SortedPairs({PercKey(d.rows[i]) :
                             i \in {j \in DOMAIN d.rows : PercKeyed(d.rows[j])}})
  IN  [i \in DOMAIN keys |-> PercGroup(d, keys[i])]

\* the grand total taken as the average of the groups' averages
TotalAvgFinSuccessOfGroups(d) ==
  IF PercResult(d) = <<>> THEN Num(0)
  ELSE MeanRound2(PercResult(d), "%AVG_TOTAL_FIN_SUCCESS")

\* total_row["%AVG_TOTAL_FIN_SUCCESS"]: round(active_df[...].mean(), 2) if not
\* active_df.empty else 0, over the rows of df_perc with logging days not 0
TotalAvgFinSuccess(d) ==
  LET active_df == SelectSeq(d.rows, PercActive)
  IN  IF active_df = <<>> THEN Num(0)
      ELSE MeanRound2(active_df, "TOTAL_FIN_SUCCESS")

\* total_row: the sums of the count columns, the ratios recomputed from them,
\* the KPI numerators and the mean taken over the rows of df_perc itself
PercTotalRow(d, result) ==
  LET total_bc_grand == SumCol(result, "TOTAL_BC") \div Unit
      total_active_bc_grand == SumCol(result, "TOTAL_ACTIVE_BC") \div Unit
      total_inactive_bc_grand == SumCol(result, "TOTAL_INACTIVE_BC") \div Unit
      active_df == SelectSeq(d.rows, PercActive)
      inactive_df == SelectSeq(d.rows, LAMBDA r : ~PercActive(r))
  IN  [n \in PercResultCols(d) |->
         CASE n = "CO_ORDINATOR_NAME" -> Str(GrandTotalLabel)
           [] n = "STATE_NAME" -> Str(<<>>)
           [] n \in {"TOTAL_BC", "TOTAL_ACTIVE_BC", "TOTAL_INACTIVE_BC",
                     "BELOW_50_COUNT", "BELOW_100_COUNT"} -> Num(SumCol(result, n))
           [] n = "%INACTIVE" -> GuardedPct(total_inactive_bc_grand, total_bc_grand)
           [] n = "%AVG_TOTAL_FIN_SUCCESS" ->
                TotalAvgFinSuccess(d)
           [] n = "BELOW_50_%" ->
                GuardedPct(SumCol(result, "BELOW_50_COUNT") \div Unit,
                           total_active_bc_grand)
           [] n = "BELOW_100_%" ->
                GuardedPct(SumCol(result, "BELOW_100_COUNT") \div Unit,
                           total_active_bc_grand)
           [] OTHER ->
                LET j == CHOOSE i \in DOMAIN PercKpiColumns :
                           n \in {ActivePctCol(PercKpiColumns[i]),
                                  NotActivePctCol(PercKpiColumns[i])}
                    kpi == PercKpiColumns[j]
                IN  IF n = ActivePctCol(kpi)
                    THEN GuardedPct(Len(SelectSeq(active_df, LAMBDA r : CellGt0(r[kpi]))),
                                    total_active_bc_grand)
                    ELSE GuardedPct(Len(SelectSeq(inactive_df, LAMBDA r : CellGt0(r[kpi]))),
                                    total_inactive_bc_grand)]

\* final_cols_exist: the labels whose computed column exists
PercHeader(d) ==
  SelectSeq(PercFinalCols,
            LAMBDA l : PercColumnOf[CHOOSE j \in DOMAIN PercFinalCols :
                                      PercFinalCols[j] = l] \in PercResultCols(d))

\* rename(columns=column_rename_map) and the selection of final_cols_exist
PercDisplay(d, rows) ==
  LET hdr == PercHeader(d)
  IN  [i \in DOMAIN rows |->
         [l \in {hdr[j] : j \in DOMAIN hdr} |->
            rows[i][PercColumnOf[CHOOSE j \in DOMAIN PercFinalCols :
                                   PercFinalCols[j] = l]]]]


\* the rows appended under the header of the 'PERCENTAGE' sheet
PercSheetRows(d) ==
  LET result == PercResult(d)
  IN  PercDisplay(d, result \o <<PercTotalRow(d, result)>>)

\* the outcome of the body of the try block
PercentageSheet(d0) ==
  LET d == RenameCols(d0, [c \in d0.cols |-> PercName(c)])
  IN  IF PercRaises(d)
      THEN [ok |-> FALSE, sheet |-> EmptySheet]
      ELSE [ok |-> TRUE,
            sheet |-> [header |-> PercHeader(d),
                       body |-> PercSheetRows(WithStateName(d))]]

---------------------------------------------------------------------------
(* create_kpi_sheets                                                       *)

KpiCols ==
  <<"TOTAL LOGGING DAYS", "TOTAL EKYC SUCCESS", "TOTAL APY SUCCESS",
    "TOTAL PMSBY SUCCESS", "TOTAL PMJJBY SUCCESS", "TOTAL LOAN RECOVERY",
    "TOTAL AMOUNT", "LOAN LEAD GENERATION COUNT", "TOTAL_FIN_SUCCESS">>

KpiBaseColumns ==
  <<"MECHNAT_ID", "BC_NAME", "BRANCH_NAME", "REGION_NAME", "STATE_NAME",
    "LOCATION TYPE", "TOTAL LOGGING DAYS", "CO ORDINATOR NAME">>

\* base_columns[:-1] + ['TOTAL_FIN_SUCCESS', 'CO ORDINATOR NAME']
KpiBelowColumns ==
  SubSeq(KpiBaseColumns, 1, Len(KpiBaseColumns) - 1)
    \o <<"TOTAL_FIN_SUCCESS", "CO ORDINATOR NAME">>

KpiSssColumns ==
  <<"MECHNAT_ID", "BC_NAME", "BRANCH_NAME", "REGION_NAME", "STATE_NAME",
    "LOCATION TYPE", "TOTAL LOGGING DAYS", "TOTAL APY SUCCESS",
    "TOTAL PMSBY SUCCESS", "TOTAL PMJJBY SUCCESS", "CO ORDINATOR NAME">>

\* sheets_to_create, in the order of the dictionary
KpiSheetNames == <<"Inactive", "Below_50", "Below_100", "SSS">>

TotalCountLabel == <<"T","o","t","a","l"," ","C","o","u","n","t">>

\* "\n".join(col.split()) of the column names that are written as headers
KpiHeaderText(c) ==
  CASE c = "LOCATION TYPE" -> "LOCATION\nTYPE"
    [] c = "TOTAL LOGGING DAYS" -> "TOTAL\nLOGGING\nDAYS"
    [] c = "CO ORDINATOR NAME" -> "CO\nORDINATOR\nNAME"
    [] c = "TOTAL APY SUCCESS" -> "TOTAL\nAPY\nSUCCESS"
    [] c = "TOTAL PMSBY SUCCESS" -> "TOTAL\nPMSBY\nSUCCESS"
    [] c = "TOTAL PMJJBY SUCCESS" -> "TOTAL\nPMJJBY\nSUCCESS"
    [] OTHER -> c

\* pd.to_numeric / .str on a name that selects two columns raises
KpiRaises(d) ==
  \/ \E i \in DOMAIN KpiCols : KpiCols[i] \in d.dups
  \/ "STATE_NAME" \in d.dups

RECURSIVE KpiCoerce(_, _)
\* for col in kpi_cols: add it as 0 when absent, then to_numeric(...).fillna(0)
KpiCoerce(d, n) ==
  IF n = 0 THEN d
  ELSE LET p == KpiCoerce(d, n - 1)
           col == KpiCols[n]
       IN  IF col \in p.cols
           THEN SetCol(p, col, [i \in DOMAIN p.rows |-> ToNumericFillna0(p.rows[i][col])])
           ELSE SetCol(p, col, [i \in DOMAIN p.rows |-> Num(0)])

\* df_kpi after the normalisation statements
KpiFrame(d0) == WithStateName(KpiCoerce(StripColumns(d0), Len(KpiCols)))

\* (df_kpi[kpi_cols].fillna(0) == 0).all(axis=1)
InactiveFilter(r) == \A i \in DOMAIN KpiCols : Fillna0(r[KpiCols[i]]) = Num(0)

Below50Filter(r) == CellBetween(r["TOTAL_FIN_SUCCESS"], Below50Lo, Below50Hi)

Below100Filter(r) == CellBetween(r["TOTAL_FIN_SUCCESS"], Below100Lo, Below100Hi)

\* the stagnant filter with logging days >= 0 in place of > 0
SssFilterFromZero(r) ==
  /\ r["TOTAL LOGGING DAYS"].v >= 0
  /\ r["TOTAL APY SUCCESS"] = Num(0)
  /\ r["TOTAL PMSBY SUCCESS"] = Num(0)
  /\ r["TOTAL PMJJBY SUCCESS"] = Num(0)

SssFilter(r) ==
  /\ CellGt0(r["TOTAL LOGGING DAYS"])
  /\ r["TOTAL APY SUCCESS"] = Num(0)
  /\ r["TOTAL PMSBY SUCCESS"] = Num(0)
  /\ r["TOTAL PMJJBY SUCCESS"] = Num(0)

\* the boolean mask of each sheet
KpiFilter(name, r) ==
  CASE name = "Inactive" -> InactiveFilter(r)
    [] name = "Below_50" -> Below50Filter(r)
    [] name = "Below_100" -> Below100Filter(r)
    [] name = "SSS" -> SssFilter(r)

\* [col for col in columns if col in df_kpi.columns]
KpiColumnsExist(name, d) ==
  SelectSeq(CASE name = "Inactive" -> KpiBaseColumns
              [] name \in {"Below_50", "Below_100"} -> KpiBelowColumns
              [] name = "SSS" -> KpiSssColumns,
            LAMBDA c : c \in d.cols)

\* df_kpi[mask].copy()[columns_exist]: the rows kept, in input order
KpiSelect(name, d) ==
  LET cols == KpiColumnsExist(name, d)
      kept == SelectSeq(d.rows, LAMBDA r : KpiFilter(name, r))
  IN  [i \in DOMAIN kept |->
         [c \in {cols[j] : j \in DOMAIN cols} |-> kept[i][c]]]

\* the sheet with the count cell holding the number of the marker's row
KpiSheetCountingRowIndex(name, d) ==
  LET cols == KpiColumnsExist(name, d)
      hdr == [j \in DOMAIN cols |-> KpiHeaderText(cols[j])]
      sel == KpiSelect(name, d)
      data == [i \in DOMAIN sel |->
                 [l \in {hdr[j] : j \in DOMAIN hdr} |->
                    sel[i][cols[CHOOSE j \in DOMAIN hdr : hdr[j] = l]]]]
      marker == [l \in {hdr[1], hdr[2]} |->
                   IF l = hdr[1] THEN Str(TotalCountLabel) ELSE Count(Len(sel) + 2)]
  IN  [header |-> hdr, body |-> data \o <<marker>>]

\* the sheet written for a non-empty selection: the header, the rows, and in
\* the row after them "Total Count" in column 1 and len(df_sheet) in column 2
KpiSheet(name, d) ==
  LET cols == KpiColumnsExist(name, d)
      hdr == [j \in DOMAIN cols |-> KpiHeaderText(cols[j])]
      sel == KpiSelect(name, d)
      data == [i \in DOMAIN sel |->
                 [l \in {hdr[j] : j \in DOMAIN hdr} |->
                    sel[i][cols[CHOOSE j \in DOMAIN hdr : hdr[j] = l]]]]
      marker == [l \in {hdr[1], hdr[2]} |->
                   IF l = hdr[1] THEN Str(TotalCountLabel) ELSE Count(Len(sel))]
  IN  [header |-> hdr, body |-> data \o <<marker>>]

\* the outcome of the body of the try block: the sheets written, by name
KpiSheets(d0) ==
  IF KpiRaises(StripColumns(d0))
  THEN [ok |-> FALSE, sheets |-> <<>>]
  ELSE LET d == KpiFrame(d0)
           made == {n \in {KpiSheetNames[j] : j \in DOMAIN KpiSheetNames} :
                      KpiSelect(n, d) # <<>>}
       IN  [ok |-> TRUE, sheets |-> [n \in made |-> KpiSheet(n, d)]]

---------------------------------------------------------------------------
(* process_complete_report                                                 *)

\* file.filename.lower().endswith(('.xlsx', '.xls'))
HasExcelExtension(filename) ==
  \/ EndsWith(Lower(filename), <<".", "x", "l", "s", "x">>)
  \/ EndsWith(Lower(filename), <<".", "x", "l", "s">>)

\* pd.read_excel(..., sheet_name="DATA") raises ValueError: the bytes are no
\* workbook, or the workbook has no sheet of that name
ReadExcelRaises(book) == book.fmt = "other" \/ "DATA" \notin DOMAIN book.sheets

\* the DataFrame read from the DATA sheet: its header row names the columns
ReadExcel(book) ==
  LET ws == book.sheets["DATA"]
  IN  [cols |-> {ws.header[j] : j \in DOMAIN ws.header},
       dups |-> {},
       rows |-> ws.body]

\* load_workbook(...) followed by the removal of a default sheet 'Sheet'
LoadWorkbook(book) ==
  IF "Sheet" \in DOMAIN book.sheets /\ Cardinality(DOMAIN book.sheets) > 1
  THEN [n \in DOMAIN book.sheets \ {"Sheet"} |-> book.sheets[n]]
  ELSE book.sheets

\* a workbook with the sheet `name` set to `sheet` (created or replaced)
WithSheet(book, name, sheet) ==
  [n \in DOMAIN book \cup {name} |-> IF n = name THEN sheet ELSE book[n]]

---------------------------------------------------------------------------
(* Uploads of the model.                                                   *)

\* the header of a complete DATA sheet, left to right
FullHeader ==
  <<"MECHNAT_ID", "REGION_NAME", "STATE_NAME", "CO ORDINATOR NAME",
    "TOTAL LOGGING DAYS", "TOTAL_FIN_SUCCESS", "TOTAL_FIN_SUCCESS_AMT",
    "TOTAL EKYC SUCCESS", "TOTAL APY SUCCESS", "TOTAL PMSBY SUCCESS",
    "TOTAL PMJJBY SUCCESS", "TOTAL LOAN RECOVERY", "TOTAL AMOUNT",
    "LOAN LEAD GENERATION COUNT">>

Without(h, c) == SelectSeq(h, LAMBDA n : n # c)

\* headers with a column missing, a padded name, or a name that occurs twice
\* once stripped
DefectHeaders ==
  {Without(FullHeader, "REGION_NAME"),
   Without(FullHeader, "MECHNAT_ID"),
   Without(FullHeader, "STATE_NAME"),
   Without(FullHeader, "TOTAL EKYC SUCCESS"),
   <<PaddedRegionCol>> \o Without(FullHeader, "REGION_NAME"),
   FullHeader \o <<PaddedStateCol>>}

\* the DATA worksheet with header h whose rows hold the cells of `rows`
DataSheet(h, rows) ==
  [header |-> h,
   body |-> [i \in DOMAIN rows |->
               [c \in {h[j] : j \in DOMAIN h} |-> rows[i][StripName(c)]]]]

\* the tables of 1..n rows drawn from R
Tables(R, n) == UNION {[1..m -> R] : m \in 1..n}

\* workbooks holding a DATA sheet
Books(H, R, n) ==
  {[fmt |-> "xlsx", sheets |-> [s \in {"DATA"} |-> DataSheet(h, t)]] :
     h \in H, t \in Tables(R, n)}

\* a data row: every KPI column holds x, but the logging days
Row(id, region, state, coord, days, x) ==
  [c \in AllCols |->
     CASE c = "MECHNAT_ID" -> id
       [] c = "REGION_NAME" -> region
       [] c = "STATE_NAME" -> state
       [] c = "CO ORDINATOR NAME" -> coord
       [] c = "TOTAL LOGGING DAYS" -> days
       [] OTHER -> x]

\* uploads that are no workbook with a DATA sheet, and a workbook that also
\* holds a default sheet
OtherBooks ==
  LET t == <<Row(Str(<<"a">>), Str(<<"a">>), Str(<<"x">>), Str(<<"a">>),
                 Num(Unit), Num(Unit))>>
  IN  {[fmt |-> "other", sheets |-> <<>>],
       [fmt |-> "xlsx", sheets |-> [s \in {"Sheet"} |-> EmptySheet]],
       [fmt |-> "xls", sheets |-> [s \in {"DATA"} |-> DataSheet(FullHeader, t)]],
       [fmt |-> "xlsx",
        sheets |-> [s \in {"DATA", "Sheet"} |->
                      IF s = "DATA" THEN DataSheet(FullHeader, t) ELSE EmptySheet]]}

Filenames ==
  {<<"r", ".", "x", "l", "s", "x">>, <<"R", ".", "X", "L", "S">>,
   <<"r", ".", "c", "s", "v">>}

\* the uploads of a specification: its workbooks under one good name, and
\* every name with the other uploads
Files(B) ==
  {[filename |-> <<"r", ".", "x", "l", "s", "x">>, book |-> b] : b \in B}
  \cup {[filename |-> n, book |-> b] : n \in Filenames, b \in OtherBooks}

\* rows of the request-level specification
RequestRows ==
  {Row(Str(<<"a">>), Str(<<"a">>), Str(<<"x">>), Str(<<"a">>), Num(Unit), Num(30 * Unit)),
   Row(Str(<<"b">>), Str(<<"a">>), Str(<<"x">>), Str(<<"b">>), Num(0), Num(0)),
   Row(Str(<<"c">>), NaN, NaN, NaN, Num(0), Num(60 * Unit))}

\* rows of the Region-State specification: two regions (one written padded
\* and in the other case), fractional KPI values, coordinator names of one or
\* two words or none; and a row without a region
RegionRows ==
  {Row(Str(<<"a">>), region, Str(<<"x">>), coord, Num(Unit), Num(x)) :
     region \in {Str(<<"a">>), Str(<<" ", "B">>)},
     coord \in {Str(<<"b", " ", "a">>), Str(<<"a">>), NaN},
     x \in {Unit \div 2, Unit + Unit \div 2}}
  \cup {Row(Str(<<"a">>), NaN, Str(<<"x">>), Str(<<"a">>), Num(Unit), Num(Unit \div 2))}

RegionFiles == Files(Books({FullHeader}, RegionRows, MaxRowsRegion))

\* rows of the Coordinator Percentage specification: two coordinators, agents
\* with and without logging days and KPI successes, and one row each without
\* an identifier, without a logging-days value, without a coordinator, and in
\* the upper band
PercRows ==
  {Row(Str(<<"a">>), Str(<<"a">>), Str(<<"x">>), coord, Num(days), Num(x)) :
     coord \in {Str(<<"a">>), Str(<<"b">>)},
     days \in {0, Unit},
     x \in {0, 30 * Unit}}
  \cup {Row(NaN, Str(<<"a">>), Str(<<"x">>), Str(<<"a">>), Num(Unit), Num(30 * Unit)),
        Row(Str(<<"a">>), Str(<<"a">>), Str(<<"x">>), Str(<<"a">>), NaN, Num(0)),
        Row(Str(<<"a">>), Str(<<"a">>), Str(<<"x">>), NaN, Num(Unit), Num(30 * Unit)),
        Row(Str(<<"a">>), Str(<<"a">>), Str(<<"x">>), Str(<<"a">>), Num(Unit), Num(60 * Unit))}

PercFiles == Files(Books({FullHeader}, PercRows, MaxRowsPerc))

\* a data row of the watch-list specification: the three scheme columns hold
\* apy, the other KPI columns but the two named hold other
KpiRow(days, fin, apy, other) ==
  [c \in AllCols |->
     CASE c \in {"MECHNAT_ID", "REGION_NAME", "CO ORDINATOR NAME"} -> Str(<<"a">>)
       [] c = "STATE_NAME" -> Str(<<"x">>)
       [] c = "TOTAL LOGGING DAYS" -> days
       [] c = "TOTAL_FIN_SUCCESS" -> fin
       [] c \in {"TOTAL APY SUCCESS", "TOTAL PMSBY SUCCESS", "TOTAL PMJJBY SUCCESS"} -> apy
       [] OTHER -> other]

\* rows of the watch-list specification: agents with and without logging
\* days, below, in and above the first band, with and without scheme
\* successes; a row of empty and text cells; a row whose only success is in
\* another KPI column
KpiRows ==
  {KpiRow(Num(days), Num(fin), Num(apy), Num(0)) :
     days \in {0, Unit}, fin \in {0, 30 * Unit}, apy \in {0, Unit}}
  \cup {KpiRow(Num(days), Num(60 * Unit), Num(0), Num(0)) : days \in {0, Unit}}
  \cup {KpiRow(Str(<<"1">>), Str(<<"x">>), NaN, NaN),
        KpiRow(Num(0), Num(0), Num(0), Num(Unit))}

\* the table with the identifier of its i-th row set to the i-th letter
WithIds(t) == [i \in DOMAIN t |-> [t[i] EXCEPT !["MECHNAT_ID"] = Str(<<Lowers[i]>>)]]

KpiFiles ==
  Files({[fmt |-> "xlsx", sheets |-> [s \in {"DATA"} |-> DataSheet(h, WithIds(t))]] :
           h \in {FullHeader, Without(FullHeader, "TOTAL EKYC SUCCESS")},
           t \in Tables(KpiRows, MaxRowsKpi)})

\* rows of the band specification: an inactive agent in the first band,
\* active agents in the first and in the second band, an active row in the
\* first band without an identifier, and an active agent of another
\* coordinator
BandRows ==
  {Row(Str(<<"a">>), Str(<<"a">>), Str(<<"x">>), Str(<<"a">>), Num(0), Num(30 * Unit)),
   Row(Str(<<"a">>), Str(<<"a">>), Str(<<"x">>), Str(<<"a">>), Num(Unit), Num(30 * Unit)),
   Row(Str(<<"a">>), Str(<<"a">>), Str(<<"x">>), Str(<<"a">>), Num(Unit), Num(60 * Unit)),
   Row(NaN, Str(<<"a">>), Str(<<"x">>), Str(<<"a">>), Num(Unit), Num(30 * Unit)),
   Row(Str(<<"a">>), Str(<<"a">>), Str(<<"x">>), Str(<<"b">>), Num(Unit), Num(30 * Unit))}

BandFiles == Files(Books({FullHeader}, BandRows, MaxRowsBand))

RequestFiles ==
  {[filename |-> n, book |-> b] :
     n \in Filenames,
     b \in Books({FullHeader} \cup DefectHeaders, RequestRows, MaxRows) \cup OtherBooks}

---------------------------------------------------------------------------
(* The request, step by step.                                              *)

Init ==
  /\ pc = "idle"
  /\ file = [filename |-> <<>>, book |-> [fmt |-> "other", sheets |-> <<>>]]
  /\ df = [cols |-> {}, dups |-> {}, rows |-> <<>>]
  /\ wb = <<>>
  /\ output_io = <<>>
  /\ response = 0
  /\ calls = <<>>
  /\ errors = <<>>

\* a client posts a file
Receive(F) ==
  /\ pc = "idle"
  /\ \E f \in F : file' = f
  /\ pc' = "check_extension"
  /\ UNCHANGED <<df, wb, output_io, response, calls, errors>>

\* the request without the extension check: every file name is read
CheckExtensionSkipped ==
  /\ pc = "check_extension"
  /\ pc' = "read"
  /\ UNCHANGED <<file, df, wb, output_io, response, calls, errors>>

\* the file extension check: HTTPException(400) for any other extension
CheckExtension ==
  /\ pc = "check_extension"
  /\ IF HasExcelExtension(file.filename)
     THEN pc' = "read" /\ response' = response
     ELSE pc' = "done" /\ response' = 400
  /\ UNCHANGED <<file, df, wb, output_io, calls, errors>>

\* file.read() and pd.read_excel: the HTTPException(400) raised for a
\* ValueError is caught by the outer handler and raised again as a 500; a
\* legacy .xls workbook is read only where its reader is installed
ReadData ==
  /\ pc = "read"
  /\ \E reader \in (IF file.book.fmt = "xls" THEN BOOLEAN ELSE {TRUE}) :
       IF ReadExcelRaises(file.book) \/ ~reader
       THEN pc' = "done" /\ response' = 500 /\ df' = df
       ELSE pc' = "load" /\ response' = response /\ df' = ReadExcel(file.book)
  /\ UNCHANGED <<file, wb, output_io, calls, errors>>

\* output_io = io.BytesIO(); wb = load_workbook(...): openpyxl raises for
\* bytes that are no .xlsx archive, and the outer handler answers 500
LoadBook ==
  /\ pc = "load"
  /\ IF file.book.fmt = "xlsx"
     THEN pc' = "region" /\ wb' = LoadWorkbook(file.book) /\ response' = response
     ELSE pc' = "done" /\ wb' = wb /\ response' = 500
  /\ UNCHANGED <<file, df, output_io, calls, errors>>

\* the component without its try/except: what raises inside reaches the
\* handler of the request, which answers 500
CreateRegionSummarySheetUncaught ==
  /\ pc = "region"
  /\ LET out == RegionSummary(df)
     IN  /\ wb' = WithSheet(wb, "Region Summary", out.sheet)
         /\ errors' = IF out.ok THEN errors
                      ELSE Append(errors, "create_region_summary_sheet")
         /\ pc' = IF out.ok THEN "percentage" ELSE "done"
         /\ response' = IF out.ok THEN response ELSE 500
  /\ calls' = Append(calls, "create_region_summary_sheet")
  /\ UNCHANGED <<file, df, output_io>>

\* create_region_summary_sheet(wb, df, file.filename): whatever raises inside
\* is caught and printed; the sheet created by the first statement stays
CreateRegionSummarySheet ==
  /\ pc = "region"
  /\ LET out == RegionSummary(df)
     IN  /\ wb' = WithSheet(wb, "Region Summary", out.sheet)
         /\ errors' = IF out.ok THEN errors
                      ELSE Append(errors, "create_region_summary_sheet")
  /\ calls' = Append(calls, "create_region_summary_sheet")
  /\ pc' = "percentage"
  /\ UNCHANGED <<file, df, output_io, response>>

\* create_percentage_sheet(wb, df)
CreatePercentageSheet ==
  /\ pc = "percentage"
  /\ LET out == PercentageSheet(df)
     IN  /\ wb' = WithSheet(wb, "PERCENTAGE", out.sheet)
         /\ errors' = IF out.ok THEN errors
                      ELSE Append(errors, "create_percentage_sheet")
  /\ calls' = Append(calls, "create_percentage_sheet")
  /\ pc' = "save"
  /\ UNCHANGED <<file, df, output_io, response>>

\* wb.save(output_io)
SaveWorkbook ==
  /\ pc = "save"
  /\ output_io' = wb
  /\ pc' = "kpi"
  /\ UNCHANGED <<file, df, wb, response, calls, errors>>

\* with pd.ExcelWriter(output_io, mode='a', if_sheet_exists='replace'):
\* create_kpi_sheets(writer, df); the writer saves the book on exit
CreateKpiSheets ==
  /\ pc = "kpi"
  /\ LET out == KpiSheets(df)
     IN  /\ output_io' = [n \in DOMAIN output_io \cup DOMAIN out.sheets |->
                            IF n \in DOMAIN out.sheets THEN out.sheets[n]
                            ELSE output_io[n]]
         /\ errors' = IF out.ok THEN errors ELSE Append(errors, "create_kpi_sheets")
  /\ calls' = Append(calls, "create_kpi_sheets")
  /\ pc' = "respond"
  /\ UNCHANGED <<file, df, wb, response>>

\* return StreamingResponse(output_io, ...)
Respond ==
  /\ pc = "respond"
  /\ response' = 200
  /\ pc' = "done"
  /\ UNCHANGED <<file, df, wb, output_io, calls, errors>>

\* the steps of process_complete_report after the upload
Handle ==
  \/ CheckExtension
  \/ ReadData
  \/ LoadBook
  \/ CreateRegionSummarySheet
  \/ CreatePercentageSheet
  \/ SaveWorkbook
  \/ CreateKpiSheets
  \/ Respond

ReceiveRequest == Receive(RequestFiles)

Next == ReceiveRequest \/ Handle

ReceiveRegion == Receive(RegionFiles)

NextRegion == ReceiveRegion \/ Handle

SpecRegion == Init /\ [][NextRegion]_vars

ReceivePerc == Receive(PercFiles)

NextPerc == ReceivePerc \/ Handle

SpecPerc == Init /\ [][NextPerc]_vars

ReceiveKpi == Receive(KpiFiles)

NextKpi == ReceiveKpi \/ Handle

SpecKpi == Init /\ [][NextKpi]_vars

ReceiveBand == Receive(BandFiles)

NextBand == ReceiveBand \/ Handle

SpecBand == Init /\ [][NextBand]_vars

Spec == Init /\ [][Next]_vars
---------------------------------------------------------------------------
(* Properties of the reports.                                              *)

Range(f) == {f[i] : i \in DOMAIN f}

\* the request was answered with the workbook
Answered == pc = "done" /\ response = 200

\* the component ran to its end
Succeeded(component) == component \notin Range(errors)

\* the rows of an emitted grouped sheet but its last, the grand total
GroupRowsOf(sheet) == SubSeq(sheet.body, 1, Len(sheet.body) - 1)
TotalRowOf(sheet) == sheet.body[Len(sheet.body)]

RegionNumericLabels ==
  {"TOTAL\nBC", "TOTAL\nTXN\nCOUNT", "TOTAL\nTXN\nAMOUNT", "TOTAL\nEKYC",
   "TOTAL\nAPY", "TOTAL\nPMSBY", "TOTAL\nPMJJBY", "TOTAL\nLOAN\nRECOVERY",
   "TOTAL\nRECOVERY\nAMT", "TOTAL\nLOAN\nLEADS"}

\* C1: in the Region Summary sheet of an answered request, every numeric
\* field of the GRAND TOTAL row, as emitted after the integer cast, equals
\* the sum of the same emitted field over the group rows.
C1_GrandTotalIsSumOfEmittedRows ==
  (Answered /\ Succeeded("create_region_summary_sheet")) =>
     LET sheet == output_io["Region Summary"]
     IN  \A l \in RegionNumericLabels :
           TotalRowOf(sheet)[l].v = SumCol(GroupRowsOf(sheet), l)

\* the permutations of 1..n
Perms(n) == {p \in [1..n -> 1..n] : \A i, j \in 1..n : i # j => p[i] # p[j]}

\* the frame with its rows in the order p
Shuffled(d, p) == [d EXCEPT !.rows = [i \in DOMAIN d.rows |-> d.rows[p[i]]]]

\* (region, state, rollup) of every group the aggregation makes of a frame
RegionRollups(d0) ==
  LET g == RegionGrouped(StripColumns(d0))
  IN  {<<g[i]["REGION_NAME"].s, g[i]["STATE_NAME"].s, g[i]["COORDINATOR_NAME"].s>> :
         i \in DOMAIN g}

\* (region, state, rollup) of every group row of an emitted sheet
EmittedRollups(sheet) ==
  {<<r["REGION"].s, r["STATE"].s, r["COORDINATOR"].s>> :
     r \in Range(GroupRowsOf(sheet))}

RECURSIVE SplitOn(_, _)
\* s.split(sep) for a one-character separator
SplitOn(s, sep) ==
  IF \A i \in DOMAIN s : s[i] # sep THEN <<s>>
  ELSE LET k == CHOOSE i \in DOMAIN s :
                  s[i] = sep /\ \A j \in 1..(i - 1) : s[j] # sep
       IN  <<SubSeq(s, 1, k - 1)>> \o SplitOn(SubSeq(s, k + 1, Len(s)), sep)

\* the upper-cased first words of the non-empty coordinator names of the
\* rows of df whose region and state normalise to the given key
FirstNamesOf(d, region, state) ==
  {Upper(FirstToken(d.rows[i]["CO ORDINATOR NAME"].s)) :
     i \in {j \in DOMAIN d.rows :
              /\ d.rows[j]["REGION_NAME"].k = "str"
              /\ Upper(Strip(d.rows[j]["REGION_NAME"].s)) = region
              /\ Upper(Strip(d.rows[j]["STATE_NAME"].s)) = state
              /\ d.rows[j]["CO ORDINATOR NAME"].k = "str"
              /\ Strip(d.rows[j]["CO ORDINATOR NAME"].s) # <<>>}}

\* the rollup text lists exactly the names of N, each once, in ascending order
IsSortedRollupOf(text, N) ==
  IF N = {} THEN text = <<>>
  ELSE LET parts == SplitOn(text, "/")
       IN  /\ Range(parts) = N
           /\ \A i \in 1..(Len(parts) - 1) : LexLess(parts[i], parts[i + 1])

\* C10: the coordinator rollup of every (region, state) group of the emitted
\* Region Summary sheet is the one the aggregation yields for every
\* permutation of the input rows, and it lists the upper-cased first words of
\* the group's non-empty coordinator names, each once, sorted, joined by '/'.
C10_RollupIsOrderIndependent ==
  (Answered /\ Succeeded("create_region_summary_sheet")) =>
     LET emitted == EmittedRollups(output_io["Region Summary"])
     IN  /\ \A p \in Perms(Len(df.rows)) : RegionRollups(Shuffled(df, p)) = emitted
         /\ \A e \in emitted : IsSortedRollupOf(e[3], FirstNamesOf(df, e[1], e[2]))

\* a group whose first row names B and whose second row names A was rolled up
C10_Witness ==
  /\ Answered /\ Succeeded("create_region_summary_sheet")
  /\ Len(df.rows) >= 2
  /\ df.rows[1]["REGION_NAME"] = df.rows[2]["REGION_NAME"]
  /\ df.rows[1]["CO ORDINATOR NAME"] = Str(<<"b", " ", "a">>)
  /\ df.rows[2]["CO ORDINATOR NAME"] = Str(<<"a">>)
  /\ \E e \in EmittedRollups(output_io["Region Summary"]) : e[3] = <<"A", "/", "B">>

\* the rows of df that fall in the (coordinator, state) group of an emitted row
PercMembers(d, row) ==
  {i \in DOMAIN d.rows :
     /\ d.rows[i]["CO ORDINATOR NAME"] = row["CO_ORDINATOR"]
     /\ Upper(Strip(d.rows[i]["STATE_NAME"].s)) = row["STATE"].s}

PercRatioLabels ==
  {"%INACTIVE", "BELOW_50_%", "BELOW_100_%", "APY_ACTIVE_%", "PMSBY_ACTIVE_%",
   "PMJJBY_ACTIVE_%"}

InZeroToHundred(c) == c.k = "num" /\ c.v >= 0 /\ c.v <= Hundred * Unit

\* C3: every ratio percentage field of every row of the emitted PERCENTAGE
\* sheet, the grand total included, is a number in [0, 100].
C3_PercentagesInRange ==
  (Answered /\ Succeeded("create_percentage_sheet")) =>
     \A row \in Range(output_io["PERCENTAGE"].body) :
        \A l \in PercRatioLabels : InZeroToHundred(row[l])

\* C4: in every row of the emitted PERCENTAGE sheet, the grand total
\* included, a percentage whose denominator is 0 is exactly 0; stated for the
\* denominator the claim names, the number of active agents: when ACTIVE_BC
\* is 0 the band and KPI active percentages are 0.
C4_ZeroDenominatorGivesZero ==
  (Answered /\ Succeeded("create_percentage_sheet")) =>
     \A row \in Range(output_io["PERCENTAGE"].body) :
        row["ACTIVE_BC"].v = 0 =>
           \A l \in PercRatioLabels \ {"%INACTIVE"} : row[l] = Num(0)

\* the value a KPI cell counts as: 0 for an empty cell and for text that is
\* no number
NumOf(c) == ToNumericFillna0(c).v

\* the condition of each watch-list on a row of the DATA sheet
WatchListCondition(name, r) ==
  CASE name = "Inactive" ->
         \A c \in {"TOTAL LOGGING DAYS", "TOTAL EKYC SUCCESS", "TOTAL APY SUCCESS",
                   "TOTAL PMSBY SUCCESS", "TOTAL PMJJBY SUCCESS", "TOTAL LOAN RECOVERY",
                   "TOTAL AMOUNT", "LOAN LEAD GENERATION COUNT", "TOTAL_FIN_SUCCESS"} :
            c \in DOMAIN r => NumOf(r[c]) = 0
    [] name = "Below_50" ->
         NumOf(r["TOTAL_FIN_SUCCESS"]) >= Unit /\ NumOf(r["TOTAL_FIN_SUCCESS"]) <= 50 * Unit
    [] name = "Below_100" ->
         NumOf(r["TOTAL_FIN_SUCCESS"]) >= 51 * Unit
           /\ NumOf(r["TOTAL_FIN_SUCCESS"]) <= 100 * Unit
    [] name = "SSS" ->
         /\ NumOf(r["TOTAL LOGGING DAYS"]) > 0
         /\ \A c \in {"TOTAL APY SUCCESS", "TOTAL PMSBY SUCCESS", "TOTAL PMJJBY SUCCESS"} :
              NumOf(r[c]) = 0

\* the rows of an emitted watch-list sheet that carry the marker label
MarkerRows(sheet) ==
  {i \in DOMAIN sheet.body : sheet.body[i][sheet.header[1]] = Str(TotalCountLabel)}

\* the identifiers listed in the watch-list `name` of the returned workbook
ListedIds(name) ==
  IF name \in DOMAIN output_io
  THEN {output_io[name].body[i]["MECHNAT_ID"] :
          i \in DOMAIN output_io[name].body \ MarkerRows(output_io[name])}
  ELSE {}

\* C5: an identifier listed in the Inactive sheet is listed in none of
\* Below_50, Below_100 and SSS, and every row whose nine KPI columns are 0 is
\* listed in Inactive (and so in no other sheet).
C5_InactiveExcludesOtherLists ==
  (Answered /\ Succeeded("create_kpi_sheets")) =>
     /\ \A id \in ListedIds("Inactive") :
          id \notin ListedIds("Below_50") \cup ListedIds("Below_100") \cup ListedIds("SSS")
     /\ \A i \in DOMAIN df.rows :
          WatchListCondition("Inactive", df.rows[i]) =>
             df.rows[i]["MECHNAT_ID"] \in ListedIds("Inactive")

\* the Inactive and the SSS sheet were both emitted for one upload
C5_Witness ==
  /\ Answered /\ Succeeded("create_kpi_sheets")
  /\ ListedIds("Inactive") # {}
  /\ ListedIds("SSS") # {}

\* C9: each watch-list sheet is in the returned workbook exactly when a row
\* of the DATA sheet meets its condition; it then holds those rows in input
\* order, followed by one row that carries "Total Count" and their number,
\* and no other row carries that label.
C9_WatchListRowsThenOneMarker ==
  (Answered /\ Succeeded("create_kpi_sheets")) =>
     \A name \in Range(KpiSheetNames) :
        LET rows == SelectSeq(df.rows, LAMBDA r : WatchListCondition(name, r))
        IN  /\ name \in DOMAIN output_io <=> rows # <<>>
            /\ name \in DOMAIN output_io =>
                 LET sheet == output_io[name]
                     n == Len(rows)
                 IN  /\ Len(sheet.body) = n + 1
                     /\ \A i \in 1..n :
                          /\ sheet.body[i]["MECHNAT_ID"] = rows[i]["MECHNAT_ID"]
                          /\ NumOf(sheet.body[i]["TOTAL\nLOGGING\nDAYS"])
                               = NumOf(rows[i]["TOTAL LOGGING DAYS"])
                     /\ MarkerRows(sheet) = {n + 1}
                     /\ sheet.body[n + 1][sheet.header[2]] = Count(n)

\* a watch-list of two rows, the first row of the upload first, was emitted
\* while another watch-list was not
C9_Witness ==
  /\ Answered /\ Succeeded("create_kpi_sheets")
  /\ \E name \in Range(KpiSheetNames) :
       /\ name \in DOMAIN output_io
       /\ Len(output_io[name].body) = 3
       /\ output_io[name].body[1]["MECHNAT_ID"] = Str(<<"a">>)
       /\ output_io[name].body[2]["MECHNAT_ID"] = Str(<<"b">>)
  /\ \E name \in Range(KpiSheetNames) : name \notin DOMAIN output_io

\* the three report components in the order of their calls
Components ==
  <<"create_region_summary_sheet", "create_percentage_sheet", "create_kpi_sheets">>

\* C6: the components are invoked in order and none is skipped: a request
\* that started them ends with all three invoked and is answered with the
\* workbook, whichever of them failed, and the workbook holds the report of
\* every component that ran to its end.
C6_ComponentFailureIsIsolated ==
  /\ calls = SubSeq(Components, 1, Len(calls))
  /\ (pc = "done" /\ calls # <<>>) => (calls = Components /\ response = 200)
  /\ Answered =>
       /\ Succeeded("create_region_summary_sheet") =>
            ("Region Summary" \in DOMAIN output_io
               /\ output_io["Region Summary"].body # <<>>)
       /\ Succeeded("create_percentage_sheet") =>
            ("PERCENTAGE" \in DOMAIN output_io /\ output_io["PERCENTAGE"].body # <<>>)
       /\ Succeeded("create_kpi_sheets") =>
            \A name \in Range(KpiSheetNames) :
               (\E i \in DOMAIN df.rows : WatchListCondition(name, df.rows[i]))
                  => name \in DOMAIN output_io

\* the Region Summary component failed, the other two ran to their end, and
\* the answered workbook holds the PERCENTAGE report and a watch-list
C6_Witness ==
  /\ Answered
  /\ ~Succeeded("create_region_summary_sheet")
  /\ Succeeded("create_percentage_sheet")
  /\ Succeeded("create_kpi_sheets")
  /\ output_io["PERCENTAGE"].body # <<>>
  /\ \E name \in Range(KpiSheetNames) : name \in DOMAIN output_io

\* C7: after a run in which the Region Summary (the PERCENTAGE) computation
\* failed, the returned workbook has no sheet of that name.
C7_FailedReportIsOmitted ==
  Answered =>
     /\ ~Succeeded("create_region_summary_sheet") => "Region Summary" \notin DOMAIN output_io
     /\ ~Succeeded("create_percentage_sheet") => "PERCENTAGE" \notin DOMAIN output_io

\* the upload cannot be processed at all: its name has no spreadsheet
\* extension, its bytes are no workbook, or the workbook has no DATA sheet
Fatal ==
  \/ ~HasExcelExtension(file.filename)
  \/ file.book.fmt = "other"
  \/ "DATA" \notin DOMAIN file.book.sheets

\* C8: for an upload with a fatal condition no report component is ever
\* invoked, and the request ends as a failure (status 400 or 500).
C8_FatalBeforeAnyComponent ==
  (pc # "idle" /\ Fatal) =>
     /\ calls = <<>>
     /\ pc \in {"check_extension", "read", "load", "done"}
     /\ pc = "done" => response \in {400, 500}

\* a well-named workbook without a DATA sheet was refused with no component
\* invoked
C8_Witness ==
  /\ pc = "done" /\ response = 500 /\ calls = <<>>
  /\ HasExcelExtension(file.filename)
  /\ file.book.fmt = "xlsx"
  /\ "DATA" \notin DOMAIN file.book.sheets

\* the columns every report needs are in the DATA sheet under their exact
\* names: what may be missing is an optional KPI column, what may be
\* malformed is a KPI cell
OnlyKpiDefects ==
  {"MECHNAT_ID", "REGION_NAME", "STATE_NAME", "CO ORDINATOR NAME",
   "TOTAL LOGGING DAYS", "TOTAL_FIN_SUCCESS"} \subseteq df.cols

\* C11: for an upload whose only defects are a missing optional KPI column
\* or a KPI cell that is no number, no component records an error and the
\* Region Summary and the PERCENTAGE report are produced.
C11_InputDefectsAreDefaulted ==
  (Answered /\ OnlyKpiDefects) =>
     /\ errors = <<>>
     /\ output_io["Region Summary"].body # <<>>
     /\ output_io["PERCENTAGE"].body # <<>>

\* some row of the DATA sheet names its region and its coordinator, so that
\* each grouped report has a group
SomeRowKeyed ==
  \E i \in DOMAIN df.rows :
     df.rows[i]["REGION_NAME"].k = "str" /\ df.rows[i]["CO ORDINATOR NAME"].k = "str"

\* C12: every row of the DATA sheet is counted in a group: the GRAND TOTAL
\* row of the Region Summary and of the PERCENTAGE report each hold the
\* number of input rows as TOTAL_BC, also when a row names no region or no
\* coordinator.
C12_EveryRowIsCounted ==
  (Answered /\ OnlyKpiDefects /\ SomeRowKeyed) =>
     /\ Succeeded("create_region_summary_sheet") =>
          TotalRowOf(output_io["Region Summary"])["TOTAL\nBC"] = Count(Len(df.rows))
     /\ Succeeded("create_percentage_sheet") =>
          TotalRowOf(output_io["PERCENTAGE"])["TOTAL_BC"] = Count(Len(df.rows))

\* the members of a group that are active (logging days not 0) and agents
\* (rows with an identifier) with a financial success in [lo, hi]
ActiveInBand(d, members, lo, hi) ==
  {i \in members :
     /\ d.rows[i]["TOTAL LOGGING DAYS"] # Num(0)
     /\ d.rows[i]["MECHNAT_ID"].k # "nan"
     /\ d.rows[i]["TOTAL_FIN_SUCCESS"].k = "num"
     /\ d.rows[i]["TOTAL_FIN_SUCCESS"].v >= lo * Unit
     /\ d.rows[i]["TOTAL_FIN_SUCCESS"].v <= hi * Unit}

\* c is the percentage of n in m, m > 0, to two decimals: no value with two
\* decimals is nearer to n / m * 100
IsPctOf(c, n, m) ==
  /\ c.k = "num"
  /\ LET e == c.v * m - n * 100 * Unit
     IN  2 * (IF e < 0 THEN -e ELSE e) <= m

ActiveFinSuccess ==
  SelectSeq(df.rows, LAMBDA r : r["TOTAL LOGGING DAYS"] # Num(0)
                                  /\ r["TOTAL_FIN_SUCCESS"].k = "num")

\* the per-group %AVG_FIN_SUCCESS values of the emitted PERCENTAGE sheet
GroupAverages == GroupRowsOf(output_io["PERCENTAGE"])

\* C14: the %AVG_FIN_SUCCESS of the GRAND TOTAL row of the emitted
\* PERCENTAGE sheet is the mean, to two decimals, of the financial success
\* of all rows whose logging days are not 0, whatever their group, and 0 when
\* there is no such row.
C14_GrandAverageOverActiveRows ==
  (Answered /\ Succeeded("create_percentage_sheet")) =>
     LET c == TotalRowOf(output_io["PERCENTAGE"])["%AVG_FIN_SUCCESS"]
         n == Len(ActiveFinSuccess)
         e == c.v * n - SumCol(ActiveFinSuccess, "TOTAL_FIN_SUCCESS")
     IN  /\ c.k = "num"
         /\ n = 0 => c = Num(0)
         /\ n > 0 => 2 * (IF e < 0 THEN -e ELSE e) <= n

\* two groups were emitted and the grand total's average, taken over the
\* active rows, is neither the sum nor the average, weighted by TOTAL_BC or
\* not, of the two groups' averages
C14_Witness ==
  /\ Answered /\ Succeeded("create_percentage_sheet")
  /\ Len(GroupAverages) = 2
  /\ Len(ActiveFinSuccess) > 0
  /\ LET c == TotalRowOf(output_io["PERCENTAGE"])["%AVG_FIN_SUCCESS"].v
         a == GroupAverages[1]["%AVG_FIN_SUCCESS"].v
         b == GroupAverages[2]["%AVG_FIN_SUCCESS"].v
         m == GroupAverages[1]["TOTAL_BC"].v
         n == GroupAverages[2]["TOTAL_BC"].v
     IN  /\ c # a + b
         /\ 2 * c # a + b
         /\ c * (m + n) # a * m + b * n

====
